---- MODULE Spec2Model ----
(***************************************************************************)
(* edgecontext/validator.go: the package-level key slot keysValue, the     *)
(* secrets middleware validatorMiddleware that fills it, and ValidateToken *)
(* that reads it and tries the loaded keys one after another.              *)
(*                                                                         *)
(* A public key is a name of KeyIds.  A secret version is either the PEM   *)
(* of a key or bytes that do not parse (BadPEM).  A                        *)
(* token is a record of what jwt.ParseWithClaims can find out about it:    *)
(* whether it has three segments, the algorithm its header declares, the   *)
(* key that signed it (NoSigner: none of the keys), the failures its       *)
(* claims' Valid() reports, and the claims it encodes.                     *)
(***************************************************************************)
EXTENDS Integers, Sequences, FiniteSets, TLC

VARIABLES
    keysValue,  \* the atomic.Value: [set, keys]
    mw,         \* per updater, its running invocation of the middleware's handler func:
                \* [pc, all, keys, out, nexts]; out and nexts are history (the outcome of the
                \* invocation, the calls of next it has made) and stay until the next invocation
    call        \* the running ValidateToken call: [pc, token, keys, idx, lastErr, ret, tried]; tried is history

vars == <<keysValue, mw, call>>

-----------------------------------------------------------------------------
(* Bounds *)

\* the longest versioned secret (bundle) an update delivers
MaxVersions == 2

\* the RSA public keys that ever appear in the secret store
KeyIds == {"K1", "K2"}

\* a key that is in no secret version: what a forged token is signed with, and
\* the key field of a failed parse
NoSigner == "K0"

\* a secret version: the PEM encoding of a key, or bytes that are no PEM public key
PEM(k) == [pem |-> TRUE, key |-> k]

BadPEM == [pem |-> FALSE, key |-> NoSigner]

Versions == {PEM(k) : k \in KeyIds} \cup {BadPEM}

\* versioned.GetAll(): the current version, then the previous and next ones if present
Bundles == UNION {[1..n -> Versions] : n \in 1..MaxVersions}

-----------------------------------------------------------------------------
(* Constants of the code *)

jwtAlg == "RS256"

\* jwt.ValidationError.Errors is a bitmask; a set of the bits' names stands for it
ErrorKinds == {"Malformed", "Unverifiable", "SignatureInvalid", "Audience", "Expired",
               "IssuedAt", "Issuer", "NotValidYet", "Id", "ClaimsInvalid"}

shortCircuitErrors == {"Malformed", "Audience", "Expired", "IssuedAt", "Issuer",
                       "NotValidYet", "Id", "ClaimsInvalid"}

\* the bits a Claims.Valid() can report
ClaimKinds == {"Audience", "Expired", "IssuedAt", "Issuer", "NotValidYet", "Id", "ClaimsInvalid"}

-----------------------------------------------------------------------------
(* Errors.  An error value is its dynamic type and, for a validation error, *)
(* its Errors bits.                                                         *)

NilErr == [type |-> "nil", Errors |-> {}]

\* errors.New("no public keys loaded")
NoKeysErr == [type |-> "*errors.errorString", Errors |-> {}]

\* what jwt.ParseWithClaims and jwt.NewValidationError return: *jwt.ValidationError
ValidationErr(bits) == [type |-> "*jwt.ValidationError", Errors |-> bits]

\* a nil *AuthenticationToken
NilClaims == [nil |-> TRUE, sub |-> ""]

\* the claims segment of a token, as encoded
Payloads == {"c1", "c2"}

\* the AuthenticationToken a claims segment decodes into
Decode(p) == [nil |-> FALSE, sub |-> p]

-----------------------------------------------------------------------------
(* Tokens *)

MalformedToken ==
    [malformed |-> TRUE, alg |-> jwtAlg, signer |-> NoSigner, errs |-> {}, claims |-> "c1"]

GoodTokens ==
    {[malformed |-> FALSE, alg |-> jwtAlg, signer |-> s, errs |-> {}, claims |-> c] :
        s \in KeyIds \cup {NoSigner}, c \in Payloads}

OtherAlgTokens ==
    {[malformed |-> FALSE, alg |-> "RS384", signer |-> s, errs |-> {}, claims |-> "c1"] :
        s \in KeyIds \cup {NoSigner}}

BadClaimsTokens ==
    {[malformed |-> FALSE, alg |-> jwtAlg, signer |-> s, errs |-> {k}, claims |-> "c1"] :
        s \in {NoSigner, "K1"}, k \in ClaimKinds}

Tokens == {MalformedToken} \cup GoodTokens \cup OtherAlgTokens \cup BadClaimsTokens

-----------------------------------------------------------------------------
(* jwt.ParseWithClaims with the keyfunc that hands out one key *)

\* token.Method.Verify: an RSA signature verifies under the key that made it
Verify(t, key) == t.signer = key

\* The parser first splits and decodes the three segments (a failure there is
\* Malformed, whatever the key), then collects in one *ValidationError the bits
\* of Claims.Valid() and, when the signature does not verify, SignatureInvalid;
\* with no bit set the token is marked Valid and returned with a nil error.
ParseWithClaims(t, key) ==
    IF t.malformed
    THEN [token |-> [Claims |-> NilClaims, Valid |-> FALSE, Alg |-> ""],
          err |-> ValidationErr({"Malformed"})]
    ELSE LET bits == t.errs \cup (IF Verify(t, key) THEN {} ELSE {"SignatureInvalid"})
         IN  IF bits = {}
             THEN [token |-> [Claims |-> Decode(t.claims), Valid |-> TRUE, Alg |-> t.alg],
                   err |-> NilErr]
             ELSE [token |-> [Claims |-> Decode(t.claims), Valid |-> FALSE, Alg |-> t.alg],
                   err |-> ValidationErr(bits)]

-----------------------------------------------------------------------------
(* shouldShortCircutError *)

\* errors.As(err, &ve) with ve of type targetType: true when the dynamic type of
\* err (it wraps nothing) is assignable to targetType
ErrorsAs(err, targetType) == err.type = targetType

\* var ve jwt.ValidationError; errors.As(err, &ve): the target type is the
\* struct type jwt.ValidationError.  The errors of the jwt package (what
\* ParseWithClaims returns, what NewValidationError builds) have the dynamic
\* type *jwt.ValidationError, which is not assignable to the struct type, has
\* no As method and wraps nothing for errors.As to unwrap.
shouldShortCircutError(err) ==
    /\ ErrorsAs(err, "jwt.ValidationError")
    /\ err.Errors \cap shortCircuitErrors # {}

-----------------------------------------------------------------------------
(* ValidateToken *)

IdleCall ==
    [pc |-> "idle", token |-> MalformedToken, keys |-> <<>>, idx |-> 1,
     lastErr |-> NilErr, ret |-> [claims |-> NilClaims, err |-> NilErr], tried |-> <<>>]

\* Load with the type assertion's ok inverted
Load_Inverted(slot) == [keys |-> slot.keys, ok |-> ~slot.set]

\* Load with the failed type assertion ignored: an unset slot reads as an empty set
Load_IgnoreOk(slot) == [keys |-> slot.keys, ok |-> TRUE]

\* keys, ok := keysValue.Load().(keysType)
Load(slot) == [keys |-> slot.keys, ok |-> slot.set]

\* the start of ValidateToken, up to the loop
Begin(slot, t) ==
    LET l == Load(slot)
    IN  IF ~l.ok
        THEN [IdleCall EXCEPT !.pc = "done", !.token = t,
                              !.ret = [claims |-> NilClaims, err |-> NoKeysErr]]
        ELSE [IdleCall EXCEPT !.pc = "loop", !.token = t, !.keys = l.keys]

Reverse(s) == [i \in 1..Len(s) |-> s[Len(s) + 1 - i]]

\* the loop walking the keys newest-last first
RangeKeys_Reversed(c, slot) == Reverse(c.keys)

\* the loop reading the shared slot again at every iteration
RangeKeys_Shared(c, slot) == slot.keys

\* the slice the range loop walks: the local keys, evaluated once
RangeKeys(c, slot) == c.keys

\* the post-check with the algorithm comparison inverted
PostCheck_WrongAlg(tok) == ~tok.Claims.nil /\ tok.Valid /\ tok.Alg # jwtAlg

\* the post-check without the algorithm comparison
PostCheck_NoAlg(tok) == ~tok.Claims.nil /\ tok.Valid

\* claims, ok := token.Claims.(*AuthenticationToken); ok && token.Valid && token.Method.Alg() == jwtAlg
PostCheck(tok) == ~tok.Claims.nil /\ tok.Valid /\ tok.Alg = jwtAlg

\* lastErr set only while it is still nil: the first error is kept
Remember_First(c, err) == IF c.lastErr = NilErr THEN err ELSE c.lastErr

\* lastErr = err
Remember(c, err) == err

\* the loop body returning the generic error at once when the post-check fails
TryKey_AbortOnPostCheck(c, slot) ==
    LET key == RangeKeys(c, slot)[c.idx]
        r   == ParseWithClaims(c.token, key)
        c1  == [c EXCEPT !.tried = Append(@, key)]
    IN  IF r.err # NilErr
        THEN IF shouldShortCircutError(r.err)
             THEN [c1 EXCEPT !.pc = "done", !.ret = [claims |-> NilClaims, err |-> r.err]]
             ELSE [c1 EXCEPT !.lastErr = Remember(c, r.err), !.idx = @ + 1]
        ELSE IF PostCheck(r.token)
             THEN [c1 EXCEPT !.pc = "done", !.ret = [claims |-> r.token.Claims, err |-> NilErr]]
             ELSE [c1 EXCEPT !.pc = "done",
                             !.ret = [claims |-> NilClaims, err |-> ValidationErr({})]]

\* one iteration of the loop body
TryKey(c, slot) ==
    LET key == RangeKeys(c, slot)[c.idx]
        r   == ParseWithClaims(c.token, key)
        c1  == [c EXCEPT !.tried = Append(@, key)]
    IN  IF r.err # NilErr
        THEN IF shouldShortCircutError(r.err)
             THEN [c1 EXCEPT !.pc = "done", !.ret = [claims |-> NilClaims, err |-> r.err]]
             ELSE [c1 EXCEPT !.lastErr = Remember(c, r.err), !.idx = @ + 1]
        ELSE IF PostCheck(r.token)
             THEN [c1 EXCEPT !.pc = "done", !.ret = [claims |-> r.token.Claims, err |-> NilErr]]
             ELSE [c1 EXCEPT !.lastErr = Remember(c, ValidationErr({})), !.idx = @ + 1]

\* return nil, lastErr
LoopEnd(c) == [c EXCEPT !.pc = "done", !.ret = [claims |-> NilClaims, err |-> c.lastErr]]

\* the whole of ValidateToken on one loaded slot value
RECURSIVE RunLoop(_, _)
RunLoop(c, slot) ==
    IF c.pc = "done" THEN c
    ELSE IF c.idx <= Len(RangeKeys(c, slot)) THEN RunLoop(TryKey(c, slot), slot)
    ELSE LoopEnd(c)

ValidateToken(slot, t) == RunLoop(Begin(slot, t), slot)

-----------------------------------------------------------------------------
(* validatorMiddleware *)

Updaters == {"u1"}

IdleMw == [pc |-> "idle", all |-> <<>>, keys |-> <<>>, out |-> "none", nexts |-> 0]

\* jwt.ParseRSAPublicKeyFromPEM([]byte(v))
ParseRSAPublicKeyFromPEM(v) ==
    IF v.pem THEN [key |-> v.key, err |-> FALSE] ELSE [key |-> NoSigner, err |-> TRUE]

\* the loop with a break on the first version that does not parse
RECURSIVE ParseAll_Break(_, _, _)
ParseAll_Break(all, i, ks) ==
    IF i > Len(all) THEN ks
    ELSE LET r == ParseRSAPublicKeyFromPEM(all[i])
         IN  IF r.err THEN ks
             ELSE ParseAll_Break(all, i + 1, Append(ks, r.key))

\* the loop with the else lost: the key of a failed parse is appended too
RECURSIVE ParseAll_AppendAlways(_, _, _)
ParseAll_AppendAlways(all, i, ks) ==
    IF i > Len(all) THEN ks
    ELSE ParseAll_AppendAlways(all, i + 1, Append(ks, ParseRSAPublicKeyFromPEM(all[i]).key))

\* the loop over all: a version that does not parse is logged, a parsed key is appended
RECURSIVE ParseAll(_, _, _)
ParseAll(all, i, ks) ==
    IF i > Len(all) THEN ks
    ELSE LET r == ParseRSAPublicKeyFromPEM(all[i])
         IN  IF r.err THEN ParseAll(all, i + 1, ks)
             ELSE ParseAll(all, i + 1, Append(ks, r.key))

\* keys := make(keysType, 0, len(all)), then the loop
ParseKeys(all) == ParseAll(all, 1, <<>>)

\* the emptiness check lost
NoValidKeys_Never(ks) == FALSE

\* if len(keys) == 0
NoValidKeys(ks) == Len(ks) = 0

\* the new keys appended to the keys the slot holds instead of replacing them
Store_Merge(ks) == [set |-> TRUE, keys |-> keysValue.keys \o ks]

\* keysValue.Store(keys)
Store(ks) == [set |-> TRUE, keys |-> ks]

-----------------------------------------------------------------------------
(* The state machine *)

Unset == [set |-> FALSE, keys |-> <<>>]

Init ==
    /\ keysValue = Unset
    /\ mw = [u \in Updaters |-> IdleMw]
    /\ call = IdleCall

\* the fetch fails and the handler stores its (empty) keys all the same
FetchFailed_Clears(u) ==
    /\ mw[u].pc = "idle"
    /\ mw' = [mw EXCEPT ![u] = [IdleMw EXCEPT !.pc = "defer", !.out = "fetch failed"]]
    /\ keysValue' = Unset
    /\ UNCHANGED call

\* the fetch fails before next was deferred: the handler returns without calling it
FetchFailed_NoDefer(u) ==
    /\ mw[u].pc = "idle"
    /\ mw[u].out # "fetch failed"
    /\ mw' = [mw EXCEPT ![u] = [IdleMw EXCEPT !.out = "fetch failed"]]
    /\ UNCHANGED <<keysValue, call>>

\* sec.GetVersionedSecret fails: log, return (the deferred next is still to run)
FetchFailed(u) ==
    /\ mw[u].pc = "idle"
    /\ mw' = [mw EXCEPT ![u] = [IdleMw EXCEPT !.pc = "defer", !.out = "fetch failed"]]
    /\ UNCHANGED <<keysValue, call>>

\* the fetch succeeds and every version is tried
Parsed(u, all) ==
    /\ mw[u].pc = "idle"
    /\ mw' = [mw EXCEPT ![u] = [IdleMw EXCEPT !.pc = "parsed", !.all = all,
                                              !.keys = ParseKeys(all)]]
    /\ UNCHANGED <<keysValue, call>>

\* no key parsed: the handler starts over instead of returning
Discard_Retry(u) ==
    /\ mw[u].pc = "parsed"
    /\ NoValidKeys(mw[u].keys)
    /\ mw' = [mw EXCEPT ![u] = [@ EXCEPT !.out = "retry"]]
    /\ UNCHANGED <<keysValue, call>>

\* no key parsed: log, return
Discard(u) ==
    /\ mw[u].pc = "parsed"
    /\ NoValidKeys(mw[u].keys)
    /\ mw' = [mw EXCEPT ![u] = [@ EXCEPT !.pc = "defer", !.out = "declined"]]
    /\ UNCHANGED <<keysValue, call>>

Publish(u) ==
    /\ mw[u].pc = "parsed"
    /\ ~NoValidKeys(mw[u].keys)
    /\ keysValue' = Store(mw[u].keys)
    /\ mw' = [mw EXCEPT ![u] = [@ EXCEPT !.pc = "defer", !.out = "published"]]
    /\ UNCHANGED call

\* defer next(sec)
CallNext(u) ==
    /\ mw[u].pc = "defer"
    /\ mw' = [mw EXCEPT ![u] = [IdleMw EXCEPT !.out = mw[u].out, !.nexts = mw[u].nexts + 1]]
    /\ UNCHANGED <<keysValue, call>>

Enter(t) ==
    /\ call.pc = "idle"
    /\ call' = Begin(keysValue, t)
    /\ UNCHANGED <<keysValue, mw>>

Try ==
    /\ call.pc = "loop"
    /\ call.idx <= Len(RangeKeys(call, keysValue))
    /\ call' = TryKey(call, keysValue)
    /\ UNCHANGED <<keysValue, mw>>

Exhausted ==
    /\ call.pc = "loop"
    /\ call.idx > Len(RangeKeys(call, keysValue))
    /\ call' = LoopEnd(call)
    /\ UNCHANGED <<keysValue, mw>>

Return ==
    /\ call.pc = "done"
    /\ call' = IdleCall
    /\ UNCHANGED <<keysValue, mw>>

Next ==
    \/ \E u \in Updaters : FetchFailed(u)
    \/ \E u \in Updaters, all \in Bundles : Parsed(u, all)
    \/ \E u \in Updaters : Discard(u)
    \/ \E u \in Updaters : Publish(u)
    \/ \E u \in Updaters : CallNext(u)
    \/ \E t \in Tokens : Enter(t)
    \/ Try
    \/ Exhausted
    \/ Return

Spec == Init /\ [][Next]_vars

\* Two handler invocations running at once (the secrets store calls the
\* middleware from whichever goroutine reports a change), without a validator.
TwoUpdaters == {"u1", "u2"}

InitUpdates ==
    /\ keysValue = Unset
    /\ mw = [u \in TwoUpdaters |-> IdleMw]
    /\ call = IdleCall

NextUpdates ==
    \/ \E u \in TwoUpdaters : FetchFailed(u)
    \/ \E u \in TwoUpdaters, all \in Bundles : Parsed(u, all)
    \/ \E u \in TwoUpdaters : Discard(u)
    \/ \E u \in TwoUpdaters : Publish(u)
    \/ \E u \in TwoUpdaters : CallNext(u)

SpecUpdates == InitUpdates /\ [][NextUpdates]_vars

\* The handler does not block and waits for nothing: once started it runs on
\* to its return and to the deferred next.
FairUpdates ==
    SpecUpdates /\ \A u \in TwoUpdaters : WF_vars(Discard(u) \/ Publish(u) \/ CallNext(u))

-----------------------------------------------------------------------------
(* Vocabulary of the properties *)

IsPrefix(s, t) == Len(s) <= Len(t) /\ \A i \in 1..Len(s) : s[i] = t[i]

\* the number of keys this call has handed to jwt.ParseWithClaims
Attempts == Len(call.tried)

Returned == call.pc = "done"

Succeeded == Returned /\ call.ret.err = NilErr /\ ~call.ret.claims.nil

\* the call loaded a key set (it did not end on "no public keys loaded")
Loaded == call.pc = "loop" \/ (Returned /\ call.ret.err # NoKeysErr)

\* a token that is well formed, declares the configured algorithm and whose
\* claims pass validation
WellFormedValid(t) == ~t.malformed /\ t.alg = jwtAlg /\ t.errs = {}

\* the first position of ks holding key k (0 if none)
FirstPos(ks, k) ==
    IF \E i \in 1..Len(ks) : ks[i] = k
    THEN CHOOSE i \in 1..Len(ks) : ks[i] = k /\ \A j \in 1..(i - 1) : ks[j] # k
    ELSE 0

-----------------------------------------------------------------------------
(* C1: for a loaded key set of any length, a token whose expiry is in the   *)
(* past fails with the expired kind after exactly one key attempt, and a    *)
(* malformed token fails with the malformed kind after at most one key      *)
(* attempt; the keys at positions 2..n are never tried.                     *)
C1_ExpiredOrMalformedOneAttempt ==
    (Returned /\ Loaded) =>
        /\ "Expired" \in call.token.errs =>
               /\ "Expired" \in call.ret.err.Errors
               /\ Attempts = 1
        /\ call.token.malformed =>
               /\ "Malformed" \in call.ret.err.Errors
               /\ Attempts <= 1

-----------------------------------------------------------------------------
(* C2: for a token with valid claims (under the configured algorithm) whose *)
(* signature verifies under the key at position i of the loaded set and     *)
(* under no earlier one, the call tries the keys in stored order, tries     *)
(* exactly i of them and returns the claims of the token; no key after      *)
(* position i is tried.                                                     *)
C2_FirstMatchingKeyWins ==
    LET i == FirstPos(call.keys, call.token.signer)
    IN  (Loaded /\ WellFormedValid(call.token) /\ i > 0) =>
           /\ IsPrefix(call.tried, SubSeq(call.keys, 1, i))
           /\ Returned =>
                  /\ call.tried = SubSeq(call.keys, 1, i)
                  /\ call.ret = [claims |-> Decode(call.token.claims), err |-> NilErr]

\* a call that succeeded with the second key after the first one failed
C2_Witness ==
    /\ Succeeded
    /\ WellFormedValid(call.token)
    /\ FirstPos(call.keys, call.token.signer) = 2
    /\ Attempts = 2

-----------------------------------------------------------------------------
(* Vocabulary of the updates *)

\* the versions of a bundle that are PEM public keys, in bundle order
Parseable(all) == SelectSeq(all, LAMBDA v : v.pem)

\* their keys
KeysIn(all) == [i \in 1..Len(Parseable(all)) |-> Parseable(all)[i].key]

InSeq(k, ks) == \E i \in 1..Len(ks) : ks[i] = k

\* updater u takes its publish-or-decline decision in this step
Decides(u) == mw[u].pc = "parsed" /\ mw'[u].pc = "defer"

-----------------------------------------------------------------------------
(* C3: whatever updates have run, the key slot is either still unset or     *)
(* holds a non-empty key set: no empty set is ever published.               *)
C3_NeverEmptySet == keysValue.set => Len(keysValue.keys) > 0

\* a set is live and an update with no usable key has just been declined
C3_Witness ==
    /\ keysValue.set
    /\ \E u \in Updaters : mw[u].out = "declined" /\ Parseable(mw[u].all) = <<>>

-----------------------------------------------------------------------------
(* C4: an update whose bundle has no parseable version leaves the slot as   *)
(* it was (same keys in the same order, or still unset), so that            *)
(* ValidateToken returns the same for every token before and after it.      *)
C4_EmptyUpdateChangesNothing ==
    [][\A u \in Updaters :
          (Decides(u) /\ Parseable(mw[u].all) = <<>>) =>
              /\ keysValue' = keysValue
              /\ \A t \in Tokens :
                    ValidateToken(keysValue', t).ret = ValidateToken(keysValue, t).ret]_vars

\* a token validates against the old set after an update without usable keys
\* was declined
C4_Witness ==
    /\ \E u \in Updaters : mw[u].out = "declined" /\ Parseable(mw[u].all) = <<>>
    /\ keysValue.set
    /\ Succeeded

-----------------------------------------------------------------------------
(* C5: an update whose bundle has at least one parseable version publishes  *)
(* exactly the keys of the parseable versions in bundle order (a version    *)
(* that does not parse is skipped, the later ones are still processed), and *)
(* that set replaces the previous one whole: afterwards a valid token       *)
(* signed by a key of the new bundle validates and one signed by a key not  *)
(* in it fails.                                                             *)
C5_PublishReplacesWhole ==
    [][\A u \in Updaters :
          (Decides(u) /\ Parseable(mw[u].all) # <<>>) =>
              /\ keysValue'.set
              /\ keysValue'.keys = KeysIn(mw[u].all)
              /\ \A t \in Tokens :
                    WellFormedValid(t) =>
                        LET r == ValidateToken(keysValue', t).ret
                        IN  IF InSeq(t.signer, KeysIn(mw[u].all))
                            THEN r = [claims |-> Decode(t.claims), err |-> NilErr]
                            ELSE r.claims.nil /\ r.err # NilErr]_vars

\* an update published the key of its second version after skipping a first
\* version that does not parse, and a token signed by that key validates
C5_Witness ==
    /\ \E u \in Updaters :
          /\ mw[u].out = "published"
          /\ Len(mw[u].all) = 2
          /\ ~mw[u].all[1].pem
          /\ keysValue.keys = <<mw[u].all[2].key>>
    /\ Succeeded
    /\ call.keys = keysValue.keys

-----------------------------------------------------------------------------
(* C6: while no key set has been published, a ValidateToken call on any     *)
(* token returns the "no public keys loaded" error, which is no validation  *)
(* error, and hands no key to the parser.                                   *)
C6_NoKeysAvailable ==
    (~keysValue.set /\ call.pc # "idle") =>
        /\ Returned
        /\ call.ret = [claims |-> NilClaims, err |-> NoKeysErr]
        /\ call.ret.err.type # "*jwt.ValidationError"
        /\ Attempts = 0

\* a call on a well formed, validly signed token returned with the slot unset
C6_Witness == ~keysValue.set /\ Returned /\ WellFormedValid(call.token) /\ call.token.signer \in KeyIds

-----------------------------------------------------------------------------
(* C7: for every loaded key set and every position in it, a token signed by *)
(* the key at that position, with valid claims and the configured           *)
(* algorithm, makes ValidateToken succeed with the claims the token encodes.*)
C7_SignedByTrustedKeySucceeds ==
    (Returned /\ Loaded /\ WellFormedValid(call.token)
              /\ InSeq(call.token.signer, call.keys)) =>
        /\ call.ret.err = NilErr
        /\ call.ret.claims = Decode(call.token.claims)

\* success for a token signed by the key at the last position of a set of
\* MaxVersions keys, carrying the second payload
C7_Witness ==
    /\ Succeeded
    /\ Len(call.keys) = MaxVersions
    /\ call.keys[MaxVersions] = call.token.signer
    /\ call.ret.claims.sub = "c2"

-----------------------------------------------------------------------------
(* C8: when the loop has tried every key of the loaded set without success  *)
(* and without a short-circuit, ValidateToken returns the error of the last *)
(* key tried, not the error of an earlier key.                              *)

\* the error the loop body remembers for one key
ErrorUnder(t, key) ==
    LET r == ParseWithClaims(t, key)
    IN  IF r.err # NilErr THEN r.err ELSE ValidationErr({})

\* the loop ran off the end of the loaded keys
RanOut == Returned /\ Loaded /\ call.idx > Len(call.keys)

C8_LastErrorReturned ==
    RanOut =>
        /\ call.tried = call.keys
        /\ call.ret.claims.nil
        /\ call.ret.err = ErrorUnder(call.token, call.keys[Len(call.keys)])

\* the loop ran out with the last key's error differing from the first key's
C8_Witness ==
    /\ RanOut
    /\ Len(call.keys) >= 2
    /\ ErrorUnder(call.token, call.keys[1]) # ErrorUnder(call.token, call.keys[Len(call.keys)])

-----------------------------------------------------------------------------
(* C9: under any interleaving with secret updates, a ValidateToken call     *)
(* reads the slot once and walks that one set for its whole loop: the keys  *)
(* it tries are, in order, the keys of the set it loaded, whatever is       *)
(* published meanwhile, and every set the slot ever holds is the complete   *)
(* list of keys of one bundle, never a part of one.                         *)
C9_OneCompleteSetPerCall ==
    [][/\ (call.pc = "idle" /\ call'.pc = "loop") =>
              /\ keysValue.set
              /\ call'.keys = keysValue.keys
       /\ (call.pc = "loop") =>
              /\ call'.pc # "idle" => call'.keys = call.keys
              /\ call'.tried # call.tried =>
                     call'.tried = Append(call.tried, call.keys[call.idx])
              /\ IsPrefix(call'.tried, call.keys)
       /\ keysValue' # keysValue =>
              \E u \in Updaters : Decides(u) /\ keysValue'.keys = KeysIn(mw[u].all)]_vars

\* a call in its loop has tried a key of the set it loaded, and the slot
\* holds another set by now
C9_Witness ==
    /\ call.pc = "loop"
    /\ Attempts >= 1
    /\ call.idx <= Len(call.keys)
    /\ keysValue.keys # call.keys
    /\ \A i \in 1..Len(keysValue.keys) : ~InSeq(keysValue.keys[i], call.keys)

-----------------------------------------------------------------------------
(* C10: the loop is aborted for exactly the failure kinds malformed,        *)
(* audience-mismatch, expired, issued-in-future, issuer-mismatch,           *)
(* id-invalid and claims-invalid, and goes on to the next key for a         *)
(* signature mismatch or unspecified failure, the only class for which      *)
(* another key is tried.                                                    *)
ClaimedAbortKinds ==
    {"Malformed", "Audience", "Expired", "IssuedAt", "Issuer", "Id", "ClaimsInvalid"}

C10_ShortCircuitTable ==
    /\ (call.pc = "loop" /\ Attempts > 0) =>
           call.lastErr.Errors \cap ClaimedAbortKinds = {}
    /\ (Returned /\ Loaded /\ call.ret.err # NilErr /\ Attempts < Len(call.keys)) =>
           call.ret.err.Errors \cap ClaimedAbortKinds # {}

-----------------------------------------------------------------------------
(* C11: when two secret updates run concurrently, every set that is ever    *)
(* published is the parsed key list of exactly one of the bundles, never a  *)
(* mix of the two, and the slot holds the set of whichever update stored    *)
(* last: a store replaces what the other update stored, and nothing but a   *)
(* store changes the slot.                                                  *)
Stores(u) == Decides(u) /\ mw'[u].out = "published"

C11_ConcurrentUpdatesNotMixed ==
    [][/\ \A u \in TwoUpdaters :
             Stores(u) => keysValue' = [set |-> TRUE, keys |-> KeysIn(mw[u].all)]
       /\ keysValue' # keysValue => \E u \in TwoUpdaters : Stores(u)]_vars

\* both updates have stored, each another key list; the slot holds the list
\* of one of them
C11_Witness ==
    /\ \A u \in TwoUpdaters : mw[u].pc = "defer" /\ mw[u].out = "published"
    /\ mw["u1"].keys # mw["u2"].keys
    /\ keysValue.keys = mw["u2"].keys
    /\ Len(mw["u1"].keys) = 2

-----------------------------------------------------------------------------
(* C12: once a set has been published the slot is never unset again, and a  *)
(* ValidateToken call that starts afterwards loads the set the slot holds   *)
(* at that moment (the published one or a later one) and does not return    *)
(* the "no public keys loaded" error.                                       *)
C12_PublishedStaysVisible ==
    [][/\ keysValue.set => keysValue'.set
       /\ (keysValue.set /\ call.pc = "idle" /\ call'.pc # "idle") =>
              /\ call'.pc = "loop"
              /\ call'.keys = keysValue.keys
              /\ call'.ret.err # NoKeysErr]_vars

\* a call returned from its loop on the live set after a later update failed
\* to fetch
C12_Witness ==
    /\ Returned /\ Loaded
    /\ call.keys = keysValue.keys
    /\ \E u \in Updaters : mw[u].pc = "defer" /\ mw[u].out = "fetch failed"

-----------------------------------------------------------------------------
(* C13: every invocation of the update handler terminates, for any bundle,  *)
(* in exactly one of two outcomes: it published a new set or it declined to *)
(* publish (no usable key, or the fetch failed); it never goes back to an   *)
(* earlier step and has no other final state.                               *)
Outcomes == {"published", "declined", "fetch failed"}

C13_OutcomeDecided ==
    \A u \in TwoUpdaters :
        /\ mw[u].pc = "parsed" => mw[u].out = "none"
        /\ mw[u].pc = "defer" => mw[u].out \in Outcomes
        /\ mw[u].out \in Outcomes \cup {"none"}

C13_NoRetry ==
    \A u \in TwoUpdaters :
        /\ mw[u].pc = "parsed" => mw'[u] = mw[u] \/ mw'[u].pc = "defer"
        /\ mw[u].pc = "defer" => mw'[u] = mw[u] \/ (mw'[u].pc = "idle" /\ mw'[u].out = mw[u].out)
        /\ Decides(u) =>
              IF mw'[u].out = "published"
              THEN keysValue' = Store(mw[u].keys)
              ELSE keysValue' = keysValue

C13_HandlerTerminates ==
    /\ []C13_OutcomeDecided
    /\ [][C13_NoRetry]_vars
    /\ \A u \in TwoUpdaters : (mw[u].pc # "idle") ~> (mw[u].pc = "idle" /\ mw[u].out \in Outcomes)

\* one invocation has ended having published, the other having declined
C13_Witness ==
    /\ mw["u1"].pc = "idle" /\ mw["u1"].out = "published"
    /\ mw["u2"].pc = "idle" /\ mw["u2"].out = "declined"

-----------------------------------------------------------------------------
-----------------------------------------------------------------------------
(* C15: ValidateToken returns claims only if a key of the set it loaded     *)
(* verified the token's signature, the claims are valid and the declared    *)
(* algorithm is RS256; a token signed by no key of the loaded set, or with  *)
(* another declared algorithm, never yields claims.                         *)
C15_ClaimsOnlyForTrustedRS256 ==
    (Returned /\ ~call.ret.claims.nil) =>
        /\ call.ret.err = NilErr
        /\ Loaded
        /\ InSeq(call.token.signer, call.keys)
        /\ ~call.token.malformed
        /\ call.token.errs = {}
        /\ call.token.alg = "RS256"
        /\ call.ret.claims = Decode(call.token.claims)

\* a token signed by a trusted key but declaring RS384 was refused
C15_Witness ==
    /\ Returned /\ Loaded
    /\ call.token.alg = "RS384"
    /\ InSeq(call.token.signer, call.keys)
    /\ call.ret.claims.nil

-----------------------------------------------------------------------------
(* C16: ValidateToken returns exactly one of non-nil claims and a non-nil   *)
(* error, never nil claims with a nil error.                                *)
C16_ClaimsXorError ==
    Returned => (call.ret.claims.nil <=> call.ret.err # NilErr)

\* the loop ran off the end of the loaded keys and returned lastErr
C16_Witness == RanOut /\ call.ret.claims.nil /\ call.ret.err = call.lastErr

-----------------------------------------------------------------------------
(* C17: when the parse-and-verify step succeeds for a key but the           *)
(* post-check fails, the loop is not aborted: a validation error without    *)
(* kind bits becomes the last error and the next key is tried; that error   *)
(* is returned only when the loop runs out with it still being the last.    *)
PostCheckFails(t, key) ==
    LET r == ParseWithClaims(t, key)
    IN  r.err = NilErr /\ ~(~r.token.Claims.nil /\ r.token.Valid /\ r.token.Alg = "RS256")

C17_PostCheckStep ==
    (call.pc = "loop" /\ call'.tried # call.tried
                      /\ PostCheckFails(call.token, call.keys[call.idx])) =>
        /\ call'.pc = "loop"
        /\ call'.lastErr = ValidationErr({})
        /\ call'.idx = call.idx + 1

C17_GenericErrorReturned ==
    (Returned /\ call.ret.err = ValidationErr({})) =>
        /\ RanOut
        /\ PostCheckFails(call.token, call.keys[Len(call.keys)])

C17_PostCheckFailureContinues ==
    /\ [][C17_PostCheckStep]_vars
    /\ []C17_GenericErrorReturned

\* the post-check failed on the first key, and the error of the second key
\* replaced the generic one
C17_Witness ==
    /\ RanOut
    /\ Len(call.keys) = 2
    /\ PostCheckFails(call.token, call.keys[1])
    /\ call.ret.err = ValidationErr({"SignatureInvalid"})

-----------------------------------------------------------------------------
(* C18: when fetching the versioned secret fails, the handler leaves the    *)
(* key slot as it was: the published set, or the unset state.               *)
FetchFails(u) == mw[u].pc = "idle" /\ mw'[u].pc = "defer" /\ mw'[u].out = "fetch failed"

C18_FetchFailureChangesNothing ==
    [][\A u \in Updaters : FetchFails(u) => keysValue' = keysValue]_vars

\* a set is live after an update whose fetch failed
C18_Witness ==
    /\ keysValue.set
    /\ \E u \in Updaters : mw[u].pc = "defer" /\ mw[u].out = "fetch failed"

-----------------------------------------------------------------------------
(* C19: in every invocation of the update handler the wrapped next handler  *)
(* is called exactly once, and only after the handler took its              *)
(* publish-or-decline decision, on each of the three paths.                 *)
C19_CalledAfterDecision ==
    \A u \in TwoUpdaters :
        /\ mw[u].pc \in {"parsed", "defer"} => mw[u].nexts = 0
        /\ (mw[u].pc = "idle" /\ mw[u].out # "none") =>
               /\ mw[u].nexts = 1
               /\ mw[u].out \in Outcomes

C19_CallStep ==
    \A u \in TwoUpdaters :
        /\ mw'[u].nexts > mw[u].nexts =>
               /\ mw[u].pc = "defer"
               /\ mw[u].out \in Outcomes
               /\ mw'[u].pc = "idle"
        /\ (mw[u].pc # "idle" /\ mw'[u].pc = "idle") => mw'[u].nexts = 1

C19_NextCalledOnce ==
    /\ []C19_CalledAfterDecision
    /\ [][C19_CallStep]_vars

\* one invocation has ended after a failed fetch, the other after publishing,
\* each having called next once
C19_Witness ==
    /\ mw["u1"].pc = "idle" /\ mw["u1"].out = "fetch failed" /\ mw["u1"].nexts = 1
    /\ mw["u2"].pc = "idle" /\ mw["u2"].out = "published" /\ mw["u2"].nexts = 1

====
